---------------------------- MODULE Spec2Model ----------------------------
(***************************************************************************)
(* Shopify -> ikas converter (src/converter.py, shopify_to_ikas_converter). *)
(*                                                                         *)
(* Text is modelled as a sequence of one-character strings, so that        *)
(* str.strip(), str.upper(), ";".join and sorted() are computed the way    *)
(* Python computes them.  A table cell is a record [t, s, v]:              *)
(*   t = "nan"   an empty cell (pandas NaN)                                *)
(*   t = "str"   a text cell, s its characters                            *)
(*   t = "float" a cell pandas parsed as a number, v its value             *)
(*   t = "inf"   a cell pandas parsed as the float infinity                *)
(***************************************************************************)
EXTENDS Naturals, Sequences, FiniteSets, TLC

VARIABLES
    pc,                   \* position in shopify_to_ikas_converter
    scenario,             \* which family of input files this run reads
    path_exists,          \* path.exists()
    suffix,               \* path.suffix
    file_handles,         \* the Handle column of the file on disk (never written)
    source_df,            \* the loaded table: a sequence of rows
    handle_groups,        \* source_df.groupby("Handle", sort=False)
    gi,                   \* index of the group the running loop is at
    common_info,          \* handle -> shared attributes
    image_urls,           \* handle -> joined image list
    handle_status,        \* handle -> visible?
    variant_combinations, \* buckets of the variant-bearing handle last processed
    ikas_rows,            \* output rows appended so far
    ikas_df,              \* the returned table
    exc                   \* the exception that ended the run, or "none"

vars == <<pc, scenario, path_exists, suffix, file_handles, source_df, handle_groups,
          gi, common_info, image_urls, handle_status, variant_combinations,
          ikas_rows, ikas_df, exc>>

-----------------------------------------------------------------------------
(* Bounds *)

MaxRows == 3

-----------------------------------------------------------------------------
(* Python text primitives *)

\* The characters of the model in code-point order (sorted() compares by code point).
CodePoints ==
    <<" ", "-", ".", "0", "1", "2", "3", "4", "5", "6", "7", "8", "9", ";",
      "A", "B", "C", "D", "E", "F", "G", "H", "I", "J", "K", "L", "M",
      "N", "O", "P", "Q", "R", "S", "T", "U", "V", "W", "X", "Y", "Z", "_",
      "a", "b", "c", "d", "e", "f", "g", "h", "i", "j", "k", "l", "m",
      "n", "o", "p", "q", "r", "s", "t", "u", "v", "w", "x", "y", "z">>

ord(c) == CHOOSE k \in DOMAIN CodePoints : CodePoints[k] = c

Lowercase == <<"a", "b", "c", "d", "e", "f", "g", "h", "i", "j", "k", "l", "m",
               "n", "o", "p", "q", "r", "s", "t", "u", "v", "w", "x", "y", "z">>
Uppercase == <<"A", "B", "C", "D", "E", "F", "G", "H", "I", "J", "K", "L", "M",
               "N", "O", "P", "Q", "R", "S", "T", "U", "V", "W", "X", "Y", "Z">>
Digits == <<"0", "1", "2", "3", "4", "5", "6", "7", "8", "9">>
Whitespace == {" "}

\* str.upper()
upper(s) ==
    [k \in DOMAIN s |->
        IF \E n \in DOMAIN Lowercase : Lowercase[n] = s[k]
        THEN Uppercase[CHOOSE n \in DOMAIN Lowercase : Lowercase[n] = s[k]]
        ELSE s[k]]

\* str.lower()
lower(s) ==
    [k \in DOMAIN s |->
        IF \E n \in DOMAIN Uppercase : Uppercase[n] = s[k]
        THEN Lowercase[CHOOSE n \in DOMAIN Uppercase : Uppercase[n] = s[k]]
        ELSE s[k]]

\* str.strip()
strip(s) ==
    LET keep == {k \in DOMAIN s : s[k] \notin Whitespace}
    IN  IF keep = {} THEN <<>>
        ELSE LET lo == CHOOSE k \in keep : \A m \in keep : k <= m
                 hi == CHOOSE k \in keep : \A m \in keep : m <= k
             IN  SubSeq(s, lo, hi)

\* a < b for Python str: lexicographic by code point, a proper prefix first
StrLess(a, b) ==
    \E k \in 1..(Len(b)) :
        /\ \A m \in 1..(k - 1) : m <= Len(a) /\ a[m] = b[m]
        /\ \/ Len(a) = k - 1
           \/ Len(a) >= k /\ ord(a[k]) < ord(b[k])

RECURSIVE sorted(_)
\* sorted(set of str)
sorted(S) ==
    IF S = {} THEN <<>>
    ELSE LET least == CHOOSE x \in S : \A y \in S \ {x} : StrLess(x, y)
         IN  <<least>> \o sorted(S \ {least})

RECURSIVE join(_, _)
\* sep.join(list of str)
join(sep, parts) ==
    IF parts = <<>> THEN <<>>
    ELSE IF Len(parts) = 1 THEN parts[1]
    ELSE parts[1] \o sep \o join(sep, Tail(parts))

RECURSIVE DecimalDigits(_)
\* the decimal digits of a natural number
DecimalDigits(n) ==
    IF n < 10 THEN <<Digits[n + 1]>>
    ELSE DecimalDigits(n \div 10) \o <<Digits[(n % 10) + 1]>>

IsDigit(c) == \E k \in DOMAIN Digits : Digits[k] = c

RECURSIVE DecimalValue(_)
\* the value of a non-empty string of decimal digits
DecimalValue(s) ==
    IF s = <<>> THEN 0
    ELSE 10 * DecimalValue(SubSeq(s, 1, Len(s) - 1))
         + ((CHOOSE k \in DOMAIN Digits : Digits[k] = s[Len(s)]) - 1)

-----------------------------------------------------------------------------
(* Cells *)

NaN == [t |-> "nan", s |-> <<>>, v |-> 0]
Str(chars) == [t |-> "str", s |-> chars, v |-> 0]
Float(n) == [t |-> "float", s |-> <<>>, v |-> n]
Inf == [t |-> "inf", s |-> <<>>, v |-> 0]
Empty == Str(<<>>)

\* pd.notna(cell)
notna(cell) == cell.t # "nan"

\* str(cell)
str(cell) ==
    CASE cell.t = "str" -> cell.s
      [] cell.t = "float" -> DecimalDigits(cell.v) \o <<".", "0">>
      [] cell.t = "inf" -> <<"i", "n", "f">>
      [] OTHER -> <<"n", "a", "n">>

\* float(cell): [ok, val] or the exception raised
float(cell) ==
    CASE cell.t = "float" -> [ok |-> TRUE, val |-> cell, err |-> "none"]
      [] cell.t = "inf" -> [ok |-> TRUE, val |-> Inf, err |-> "none"]
      [] cell.t = "str" ->
            LET body == strip(cell.s)
            IN  IF body # <<>> /\ \A k \in DOMAIN body : IsDigit(body[k])
                THEN [ok |-> TRUE, val |-> Float(DecimalValue(body)), err |-> "none"]
                ELSE IF lower(body) = <<"i", "n", "f">>
                THEN [ok |-> TRUE, val |-> Inf, err |-> "none"]
                ELSE [ok |-> FALSE, val |-> NaN, err |-> "ValueError"]
      [] OTHER -> [ok |-> TRUE, val |-> NaN, err |-> "none"]

\* int(cell): [ok, val] or the exception raised
int(cell) ==
    CASE cell.t = "float" -> [ok |-> TRUE, val |-> cell, err |-> "none"]
      [] cell.t = "inf" -> [ok |-> FALSE, val |-> NaN, err |-> "OverflowError"]
      [] cell.t = "str" ->
            LET body == strip(cell.s)
            IN  IF body # <<>> /\ \A k \in DOMAIN body : IsDigit(body[k])
                THEN [ok |-> TRUE, val |-> Float(DecimalValue(body)), err |-> "none"]
                ELSE [ok |-> FALSE, val |-> NaN, err |-> "ValueError"]
      [] OTHER -> [ok |-> FALSE, val |-> NaN, err |-> "ValueError"]

-----------------------------------------------------------------------------
(* Tables *)

SHOPIFY_COLUMNS ==
    <<"Handle", "Title", "Body (HTML)", "Vendor", "Type", "Product Category",
      "Tags", "Published", "Status", "Option1 Name", "Option1 Value",
      "Option2 Name", "Option2 Value", "Option3 Name", "Option3 Value",
      "Variant SKU", "Variant Barcode", "Barcode", "Variant Grams",
      "Variant Inventory Tracker", "Variant Inventory Qty", "Variant Price",
      "Compare At Price", "Variant Compare At Price", "Image Src",
      "Image Position", "Image Alt Text", "Variant Image", "SEO Title",
      "SEO Description", "Created At",
      "Google Shopping / Google Product Category">>

\* every column name a file of the model may carry: the documented ones and the
\* legacy Google column the converter also reads
AllColumns ==
    {SHOPIFY_COLUMNS[k] : k \in DOMAIN SHOPIFY_COLUMNS} \cup {"Google Product Category"}

\* a row of a table with the columns cols
Project(row, cols) == [c \in cols |-> row[c]]

\* "col in row and pd.notna(row[col])"
has(row, col) == col \in DOMAIN row /\ notna(row[col])

\* 1, 2, ..., n
Range(n) == [k \in 1..n |-> k]

\* ffill that leaves the empty cells empty
ffill_none(df) == df

\* source_df["Handle"].ffill(): an empty cell takes the last non-empty one above it
ffill(df) ==
    [k \in DOMAIN df |->
        IF notna(df[k]["Handle"]) THEN df[k]
        ELSE LET above == {m \in 1..(k - 1) : notna(df[m]["Handle"])}
             IN  IF above = {} THEN df[k]
                 ELSE [df[k] EXCEPT !["Handle"] =
                          df[CHOOSE m \in above : \A n \in above : n <= m]["Handle"]]]

\* a grouping that orders the groups by the last row of each handle
groupby_last_appearance(df) ==
    LET lasts == SelectSeq(Range(Len(df)),
                    LAMBDA k : /\ notna(df[k]["Handle"])
                               /\ \A m \in (k + 1)..Len(df) :
                                     df[m]["Handle"] # df[k]["Handle"])
    IN  [n \in DOMAIN lasts |->
            [handle |-> df[lasts[n]]["Handle"],
             idx |-> SelectSeq(Range(Len(df)),
                        LAMBDA k : df[k]["Handle"] = df[lasts[n]]["Handle"])]]

\* source_df.groupby("Handle", sort=False): one group per distinct non-empty handle,
\* in the order of first appearance; a group holds the indices of its rows in row
\* order; the rows whose handle is empty are in no group
groupby(df) ==
    LET firsts == SelectSeq(Range(Len(df)),
                     LAMBDA k : /\ notna(df[k]["Handle"])
                                /\ \A m \in 1..(k - 1) : df[m]["Handle"] # df[k]["Handle"])
    IN  [n \in DOMAIN firsts |->
            [handle |-> df[firsts[n]]["Handle"],
             idx |-> SelectSeq(Range(Len(df)),
                        LAMBDA k : df[k]["Handle"] = df[firsts[n]]["Handle"])]]

\* the rows of a group, in row order
group_df(df, g) == [n \in DOMAIN g.idx |-> df[g.idx[n]]]

\* "col in group_df.columns and not group_df[col].dropna().empty"
any_value(rows, col) == \E n \in DOMAIN rows : has(rows[n], col)

\* group_df[col].dropna().iloc[0]
first_value(rows, col) ==
    rows[CHOOSE n \in DOMAIN rows :
            has(rows[n], col) /\ \A m \in 1..(n - 1) : ~has(rows[m], col)][col]

\* the value of the first row of the group alone
first_or_empty_first_row(rows, col) == IF has(rows[1], col) THEN rows[1][col] ELSE Empty

\* "group_df[col].dropna().iloc[0] if col in columns and not dropna().empty else ''"
first_or_empty(rows, col) ==
    IF any_value(rows, col) THEN first_value(rows, col) ELSE Empty

ACTIVE == <<"A", "C", "T", "I", "V", "E">>
PublishedTrue == {<<"T", "R", "U", "E">>, <<"1">>, <<"Y", "E", "S">>}

\* the Status/Published block comparing the status without upper()
status_value_case_sensitive(rows) ==
    IF any_value(rows, "Status")
    THEN strip(str(first_value(rows, "Status")))
    ELSE IF any_value(rows, "Published")
         THEN IF upper(strip(str(first_value(rows, "Published")))) \in PublishedTrue
              THEN ACTIVE ELSE <<>>
         ELSE <<>>

\* the Status/Published block: status_value is None (<<>> here) or a string
status_value(rows) ==
    IF any_value(rows, "Status")
    THEN upper(strip(str(first_value(rows, "Status"))))
    ELSE IF any_value(rows, "Published")
         THEN IF upper(strip(str(first_value(rows, "Published")))) \in PublishedTrue
              THEN ACTIVE ELSE <<>>
         ELSE <<>>

\* handle_status[handle] = status_value == "ACTIVE" if status_value else False
handle_visible(rows) ==
    IF status_value(rows) # <<>> THEN status_value(rows) = ACTIVE ELSE FALSE

\* the category column: Product Category if the group has a value in it, else Type
category_col(rows) ==
    IF any_value(rows, "Product Category") THEN "Product Category"
    ELSE IF any_value(rows, "Type") THEN "Type"
    ELSE "none"

\* the Google category: the primary column, else the legacy column
google_category(rows) ==
    IF any_value(rows, "Google Shopping / Google Product Category")
    THEN first_value(rows, "Google Shopping / Google Product Category")
    ELSE first_or_empty(rows, "Google Product Category")

\* common_info[handle]
common_of(rows) ==
    [Title |-> first_or_empty(rows, "Title"),
     Body |-> first_or_empty(rows, "Body (HTML)"),
     Category |-> IF category_col(rows) = "none" THEN Empty
                  ELSE first_value(rows, category_col(rows)),
     Tags |-> first_or_empty(rows, "Tags"),
     Vendor |-> first_or_empty(rows, "Vendor"),
     SEO_Title |-> first_or_empty(rows, "SEO Title"),
     SEO_Description |-> first_or_empty(rows, "SEO Description"),
     Google_Category |-> google_category(rows),
     Type |-> first_or_empty(rows, "Type"),
     Created_At |-> first_or_empty(rows, "Created At")]

\* group_df[col].dropna().astype(str), without the empty strings, as a set
image_values(rows, col) ==
    {str(rows[n][col]) : n \in {m \in DOMAIN rows : has(rows[m], col)}} \ {<<>>}

\* image_urls[handle] built from Image Src alone
images_of_image_src_only(rows) ==
    Str(join(<<";">>, sorted(image_values(rows, "Image Src"))))

\* image_urls[handle]
images_of(rows) ==
    LET image_urls_set == image_values(rows, "Image Src")
                          \cup image_values(rows, "Variant Image")
    IN  Str(join(<<";">>, sorted(image_urls_set)))

-----------------------------------------------------------------------------
(* Field merging *)

\* the accumulators every merge loop starts from
merge_start ==
    [variant_sku |-> <<>>, barcode |-> <<>>, sale_price |-> Float(0),
     discounted_price |-> Float(0), stock_qty |-> Float(0), raised |-> "none"]

\* "try: x = conv(cell) / except (ValueError, TypeError): pass": the new value of x
try_convert(current, converted) == IF converted.ok THEN converted.val ELSE current

\* the exception such a try block lets through, or "none"
escapes(converted) ==
    IF converted.err \in {"none", "ValueError", "TypeError"} THEN "none" ELSE converted.err

\* the barcode of a row: Variant Barcode, else Barcode, else the current value
row_barcode(current, row) ==
    IF has(row, "Variant Barcode") THEN str(row["Variant Barcode"])
    ELSE IF has(row, "Barcode") THEN str(row["Barcode"])
    ELSE current

\* compare_price of a row: Compare At Price, else Variant Compare At Price
compare_price(row) ==
    IF has(row, "Compare At Price") THEN row["Compare At Price"]
    ELSE IF "Variant Compare At Price" \in DOMAIN row THEN row["Variant Compare At Price"]
    ELSE NaN

\* the price, compare price and stock statements shared by the merge loops
merge_numbers(acc, row) ==
    [acc EXCEPT
        !.sale_price =
            IF acc.sale_price = Float(0) /\ has(row, "Variant Price")
            THEN try_convert(@, float(row["Variant Price"])) ELSE @,
        !.discounted_price =
            IF acc.discounted_price = Float(0) /\ notna(compare_price(row))
            THEN try_convert(@, float(compare_price(row))) ELSE @,
        !.stock_qty =
            IF acc.stock_qty = Float(0) /\ has(row, "Variant Inventory Qty")
            THEN try_convert(@, int(row["Variant Inventory Qty"])) ELSE @,
        !.raised =
            IF acc.stock_qty = Float(0) /\ has(row, "Variant Inventory Qty")
            THEN escapes(int(row["Variant Inventory Qty"])) ELSE "none"]

\* one iteration of the simple-product loop
simple_step(acc, row) ==
    IF acc.raised # "none" THEN acc
    ELSE merge_numbers(
            [acc EXCEPT
                !.variant_sku =
                    IF acc.variant_sku = <<>> /\ has(row, "Variant SKU")
                    THEN str(row["Variant SKU"]) ELSE @,
                !.barcode = IF acc.barcode = <<>> THEN row_barcode(@, row) ELSE @],
            row)

\* the simple-product merge reading the first row only
merge_simple_first_row(rows) == simple_step(merge_start, rows[1])

RECURSIVE merge_simple(_)
\* the simple-product loop over all rows of the group, in row order
merge_simple(rows) ==
    IF rows = <<>> THEN merge_start
    ELSE simple_step(merge_simple(SubSeq(rows, 1, Len(rows) - 1)), rows[Len(rows)])

\* one iteration of the fallback loop (no bucket was built)
fallback_step(acc, row) ==
    IF acc.raised # "none" THEN acc
    ELSE merge_numbers(
            [acc EXCEPT
                !.variant_sku =
                    IF acc.variant_sku = <<>> /\ has(row, "Variant SKU")
                    THEN str(row["Variant SKU"]) ELSE @,
                !.barcode = IF acc.barcode = <<>> THEN row_barcode(@, row) ELSE @],
            row)

RECURSIVE merge_fallback(_)
\* the fallback loop over all rows of the group, in row order
merge_fallback(rows) ==
    IF rows = <<>> THEN merge_start
    ELSE fallback_step(merge_fallback(SubSeq(rows, 1, Len(rows) - 1)), rows[Len(rows)])

\* one iteration of the loop over the member rows of a bucket: a row whose SKU is
\* taken and strips to nothing is left by "continue" before its other fields are read
variant_step(acc, row) ==
    IF acc.raised # "none" THEN acc
    ELSE LET takes_sku == acc.variant_sku = <<>> /\ has(row, "Variant SKU")
             sku == IF takes_sku THEN strip(str(row["Variant SKU"])) ELSE acc.variant_sku
         IN  IF takes_sku /\ sku = <<>> THEN [acc EXCEPT !.variant_sku = sku]
             ELSE merge_numbers(
                     [acc EXCEPT
                         !.variant_sku = sku,
                         !.barcode = IF acc.barcode = <<>> THEN row_barcode(@, row) ELSE @],
                     row)

RECURSIVE merge_variant(_)
\* the merge over the member rows of a bucket, in row order
merge_variant(rows) ==
    IF rows = <<>> THEN merge_start
    ELSE variant_step(merge_variant(SubSeq(rows, 1, Len(rows) - 1)), rows[Len(rows)])

-----------------------------------------------------------------------------
(* Classification and variant keys *)

DEFAULT_TITLE == <<"D", "E", "F", "A", "U", "L", "T", " ", "T", "I", "T", "L", "E">>
SKU_ONLY == <<"S", "K", "U", "_", "O", "N", "L", "Y">>

\* is_simple_product comparing without upper()
is_simple_product_exact_case(rows) ==
    /\ has(rows[1], "Option1 Value")
    /\ strip(str(rows[1]["Option1 Value"])) = DEFAULT_TITLE

\* is_simple_product, decided on the first row of the group
is_simple_product(rows) ==
    /\ has(rows[1], "Option1 Value")
    /\ upper(strip(str(rows[1]["Option1 Value"]))) = DEFAULT_TITLE

\* a cell cleaned for the key: "" unless present and not only whitespace
cleaned(row, col) ==
    IF col \in DOMAIN row /\ notna(row[col]) /\ row[col] # Empty
       /\ strip(str(row[col])) # <<>>
    THEN strip(str(row[col])) ELSE <<>>

\* an option value with "Default Title" (any case) taken as blank
option_value(row, col) ==
    IF cleaned(row, col) # <<>> /\ strip(upper(cleaned(row, col))) = DEFAULT_TITLE
    THEN <<>> ELSE cleaned(row, col)

\* the bucketing loop without its "continue"
skipped_never(row) == FALSE

\* "continue": the row carries no option value and no SKU
skipped(row) ==
    /\ option_value(row, "Option1 Value") = <<>>
    /\ option_value(row, "Option2 Value") = <<>>
    /\ cleaned(row, "Variant SKU") = <<>>

\* variant_key comparing the option values without upper()
variant_key_case_sensitive(row) ==
    LET normalized_option1 == strip(option_value(row, "Option1 Value"))
        normalized_option2 == strip(option_value(row, "Option2 Value"))
        normalized_sku == strip(cleaned(row, "Variant SKU"))
    IN  IF normalized_option1 # <<>> \/ normalized_option2 # <<>>
        THEN <<normalized_option1, normalized_option2>>
        ELSE <<SKU_ONLY, normalized_sku>>

\* variant_key comparing the SKUs after upper()
variant_key_upper_sku(row) ==
    LET normalized_option1 == upper(strip(option_value(row, "Option1 Value")))
        normalized_option2 == upper(strip(option_value(row, "Option2 Value")))
        normalized_sku == upper(strip(cleaned(row, "Variant SKU")))
    IN  IF normalized_option1 # <<>> \/ normalized_option2 # <<>>
        THEN <<normalized_option1, normalized_option2>>
        ELSE <<SKU_ONLY, normalized_sku>>

\* variant_key of a row that is not skipped
variant_key(row) ==
    LET normalized_option1 == upper(strip(option_value(row, "Option1 Value")))
        normalized_option2 == upper(strip(option_value(row, "Option2 Value")))
        normalized_sku == strip(cleaned(row, "Variant SKU"))
    IN  IF normalized_option1 # <<>> \/ normalized_option2 # <<>>
        THEN <<normalized_option1, normalized_option2>>
        ELSE <<SKU_ONLY, normalized_sku>>

\* one iteration of the bucketing loop, for the row of index k of the table
bucket_step(df, buckets, k) ==
    IF skipped(df[k]) THEN buckets
    ELSE IF \E b \in DOMAIN buckets : buckets[b].key = variant_key(df[k])
    THEN [b \in DOMAIN buckets |->
            IF buckets[b].key = variant_key(df[k])
            THEN [buckets[b] EXCEPT !.rows = Append(@, k)]
            ELSE buckets[b]]
    ELSE Append(buckets,
            [key |-> variant_key(df[k]),
             Option1_Value |-> option_value(df[k], "Option1 Value"),
             Option2_Value |-> option_value(df[k], "Option2 Value"),
             rows |-> <<k>>])

RECURSIVE bucket_loop(_, _)
\* the bucketing loop over the rows of indices idx, in row order
bucket_loop(df, idx) ==
    IF idx = <<>> THEN <<>>
    ELSE bucket_step(df, bucket_loop(df, SubSeq(idx, 1, Len(idx) - 1)), idx[Len(idx)])

\* variant_combinations built from the first row of the group alone
buckets_of_first_row(df, g) == bucket_loop(df, <<g.idx[1]>>)

\* variant_combinations of a group: the buckets in insertion order
buckets_of(df, g) == bucket_loop(df, g.idx)

\* variant_type_1 / variant_type_2: the option names of the first row
variant_type(rows, col) == IF has(rows[1], col) THEN Str(str(rows[1][col])) ELSE Empty

-----------------------------------------------------------------------------
(* Output rows: the 37 ikas columns, their names in ASCII *)

VISIBLE == <<"V", "I", "S", "I", "B", "L", "E">>

\* satis_kanali = "VISIBLE" if handle_status[handle] else ""
satis_kanali_of(visible) == IF visible THEN Str(VISIBLE) ELSE Empty

\* the row of a simple product
simple_row(handle, common, images, m, satis_kanali) ==
    [Urun_Grup_ID |-> Empty,
     Varyant_ID |-> Empty,
     Isim |-> common.Title,
     Aciklama |-> common.Body,
     Satis_Fiyati |-> m.sale_price,
     Indirimli_Fiyati |-> m.discounted_price,
     Alis_Fiyati |-> Empty,
     Barkod_Listesi |-> Str(m.barcode),
     SKU |-> Str(m.variant_sku),
     Silindi_mi |-> Empty,
     Marka |-> common.Vendor,
     Kategoriler |-> common.Category,
     Etiketler |-> common.Tags,
     Resim_URL |-> images,
     Metadata_Baslik |-> common.SEO_Title,
     Metadata_Aciklama |-> common.SEO_Description,
     Slug |-> handle,
     Stok_Ana_Depo |-> m.stock_qty,
     Tip |-> common.Type,
     Varyant_Tip_1 |-> Empty,
     Varyant_Deger_1 |-> Empty,
     Varyant_Tip_2 |-> Empty,
     Varyant_Deger_2 |-> Empty,
     Desi |-> Empty,
     HS_Kod |-> Empty,
     Birim_Urun_Miktari |-> Empty,
     Urun_Birimi |-> Empty,
     Satilan_Urun_Miktari |-> Empty,
     Satilan_Urun_Birimi |-> Empty,
     Google_Urun_Kategorisi |-> common.Google_Category,
     Tedarikci |-> common.Vendor,
     Stogu_Tukenince_Satmaya_Devam_Et |-> Empty,
     Satis_Kanali_belix |-> satis_kanali,
     Sepet_Basina_Minimum_Alma_Adeti_belix |-> Empty,
     Sepet_Basina_Maksimum_Alma_Adeti_belix |-> Empty,
     Varyant_Aktiflik |-> Empty,
     Olusturulma_Tarihi |-> common.Created_At]

\* the row of a handle for which no bucket was built
fallback_row(handle, common, images, m, satis_kanali) ==
    [Urun_Grup_ID |-> Empty,
     Varyant_ID |-> Empty,
     Isim |-> common.Title,
     Aciklama |-> common.Body,
     Satis_Fiyati |-> m.sale_price,
     Indirimli_Fiyati |-> m.discounted_price,
     Alis_Fiyati |-> Empty,
     Barkod_Listesi |-> Str(m.barcode),
     SKU |-> Str(m.variant_sku),
     Silindi_mi |-> Empty,
     Marka |-> common.Vendor,
     Kategoriler |-> common.Category,
     Etiketler |-> common.Tags,
     Resim_URL |-> images,
     Metadata_Baslik |-> common.SEO_Title,
     Metadata_Aciklama |-> common.SEO_Description,
     Slug |-> handle,
     Stok_Ana_Depo |-> m.stock_qty,
     Tip |-> common.Type,
     Varyant_Tip_1 |-> Empty,
     Varyant_Deger_1 |-> Empty,
     Varyant_Tip_2 |-> Empty,
     Varyant_Deger_2 |-> Empty,
     Desi |-> Empty,
     HS_Kod |-> Empty,
     Birim_Urun_Miktari |-> Empty,
     Urun_Birimi |-> Empty,
     Satilan_Urun_Miktari |-> Empty,
     Satilan_Urun_Birimi |-> Empty,
     Google_Urun_Kategorisi |-> common.Google_Category,
     Tedarikci |-> common.Vendor,
     Stogu_Tukenince_Satmaya_Devam_Et |-> Empty,
     Satis_Kanali_belix |-> satis_kanali,
     Sepet_Basina_Minimum_Alma_Adeti_belix |-> Empty,
     Sepet_Basina_Maksimum_Alma_Adeti_belix |-> Empty,
     Varyant_Aktiflik |-> Empty,
     Olusturulma_Tarihi |-> common.Created_At]

\* the value the bucket retained written in upper case
variant_deger_upper(retained) ==
    IF retained # <<>> /\ upper(retained) # DEFAULT_TITLE THEN Str(upper(retained)) ELSE Empty

\* variant_deger_1 / variant_deger_2: the value the bucket retained, unless it
\* is "Default Title"
variant_deger(retained) ==
    IF retained # <<>> /\ upper(retained) # DEFAULT_TITLE THEN Str(retained) ELSE Empty

\* the row of one bucket of a variant-bearing handle; ctx holds the values fixed
\* for the handle before the loop over the buckets
variant_row(grup_id, ctx, m, bucket) ==
    [Urun_Grup_ID |-> grup_id,
     Varyant_ID |-> Empty,
     Isim |-> ctx.common.Title,
     Aciklama |-> ctx.common.Body,
     Satis_Fiyati |-> m.sale_price,
     Indirimli_Fiyati |-> m.discounted_price,
     Alis_Fiyati |-> Empty,
     Barkod_Listesi |-> Str(m.barcode),
     SKU |-> Str(m.variant_sku),
     Silindi_mi |-> Empty,
     Marka |-> ctx.common.Vendor,
     Kategoriler |-> ctx.common.Category,
     Etiketler |-> ctx.common.Tags,
     Resim_URL |-> ctx.images,
     Metadata_Baslik |-> ctx.common.SEO_Title,
     Metadata_Aciklama |-> ctx.common.SEO_Description,
     Slug |-> ctx.handle,
     Stok_Ana_Depo |-> m.stock_qty,
     Tip |-> ctx.common.Type,
     Varyant_Tip_1 |-> ctx.variant_type_1,
     Varyant_Deger_1 |-> variant_deger(bucket.Option1_Value),
     Varyant_Tip_2 |-> ctx.variant_type_2,
     Varyant_Deger_2 |-> variant_deger(bucket.Option2_Value),
     Desi |-> Empty,
     HS_Kod |-> Empty,
     Birim_Urun_Miktari |-> Empty,
     Urun_Birimi |-> Empty,
     Satilan_Urun_Miktari |-> Empty,
     Satilan_Urun_Birimi |-> Empty,
     Google_Urun_Kategorisi |-> ctx.common.Google_Category,
     Tedarikci |-> ctx.common.Vendor,
     Stogu_Tukenince_Satmaya_Devam_Et |-> Empty,
     Satis_Kanali_belix |-> ctx.satis_kanali,
     Sepet_Basina_Minimum_Alma_Adeti_belix |-> Empty,
     Sepet_Basina_Maksimum_Alma_Adeti_belix |-> Empty,
     Varyant_Aktiflik |-> Empty,
     Olusturulma_Tarihi |-> ctx.common.Created_At]

RECURSIVE variant_rows(_, _, _)
\* "for variant_key, variant_data in variant_combinations.items()": the rows
\* appended, bucket after bucket, until a merge raises
variant_rows(df, ctx, buckets) ==
    IF buckets = <<>> THEN [rows |-> <<>>, raised |-> "none"]
    ELSE LET m == merge_variant([n \in DOMAIN buckets[1].rows |-> df[buckets[1].rows[n]]])
             rest == variant_rows(df, ctx, Tail(buckets))
         IN  IF m.raised # "none" THEN [rows |-> <<>>, raised |-> m.raised]
             ELSE [rows |-> <<variant_row(ctx.handle, ctx, m, buckets[1])>> \o rest.rows,
                   raised |-> rest.raised]

-----------------------------------------------------------------------------
(* Input files *)

HandleA == Str(<<"a">>)
HandleB == Str(<<"b">>)

\* a row with every cell empty
BlankRow == [c \in AllColumns |-> NaN]

\* a row given by its handle, option values and SKU
OptionRow(handle, o1, o2, sku) ==
    [BlankRow EXCEPT !["Handle"] = handle, !["Option1 Value"] = o1,
                     !["Option2 Value"] = o2, !["Variant SKU"] = sku]

OptS == Str(<<"S">>)
OptSLower == Str(<<" ", "s", " ">>)
OptM == Str(<<"M">>)
OptDefault == Str(<<"D", "e", "f", "a", "u", "l", "t", " ", "T", "i", "t", "l", "e">>)
OptDefaultLower == Str(<<"d", "e", "f", "a", "u", "l", "t", " ", "t", "i", "t", "l", "e">>)
SkuX == Str(<<"X">>)

\* a row whose quantity pandas parsed as the float infinity
OverflowRow ==
    [OptionRow(HandleA, OptM, NaN, NaN) EXCEPT !["Variant Inventory Qty"] = Inf]

\* rows that differ in handle, first option value and SKU
CoreRows ==
    {OptionRow(HandleA, OptS, NaN, NaN),
     OptionRow(HandleA, NaN, NaN, NaN),
     OptionRow(HandleA, OptDefault, NaN, SkuX),
     OptionRow(HandleB, OptDefaultLower, NaN, NaN),
     OptionRow(HandleB, OptM, NaN, SkuX),
     OptionRow(NaN, OptS, NaN, NaN),
     OptionRow(NaN, OptDefaultLower, NaN, SkuX),
     OptionRow(NaN, NaN, NaN, NaN),
     OverflowRow}

OptBlank == Str(<<" ">>)

\* rows of one handle that differ in both option values and SKU
VariantRows ==
    {OptionRow(HandleA, OptS, NaN, NaN),
     OptionRow(HandleA, OptSLower, NaN, SkuX),
     OptionRow(HandleA, OptS, OptM, NaN),
     OptionRow(HandleA, OptM, OptDefault, NaN),
     OptionRow(HandleA, NaN, NaN, SkuX),
     OptionRow(HandleA, NaN, NaN, NaN),
     OptionRow(HandleA, OptBlank, NaN, OptBlank),
     OptionRow(HandleA, OptDefaultLower, NaN, NaN),
     OverflowRow}

\* a row given by its handle, first option value, Status and Published
StatusRow(handle, o1, status, published) ==
    [OptionRow(handle, o1, NaN, NaN) EXCEPT !["Status"] = status,
                                           !["Published"] = published]

StatusActive == Str(<<" ", "A", "c", "t", "i", "v", "e", " ">>)
StatusDraft == Str(<<"d", "r", "a", "f", "t">>)
PublishedTRUE == Str(<<"T", "R", "U", "E">>)
PublishedYes == Str(<<" ", "y", "e", "s", " ">>)
PublishedOne == Str(<<"1">>)
PublishedFALSE == Str(<<"F", "A", "L", "S", "E">>)

\* rows that differ in Status and Published
StatusRows ==
    {StatusRow(HandleA, OptS, NaN, NaN),
     StatusRow(HandleA, OptS, StatusActive, NaN),
     StatusRow(HandleA, OptM, StatusDraft, PublishedTRUE),
     StatusRow(HandleA, OptM, NaN, PublishedTRUE),
     StatusRow(HandleB, OptDefault, NaN, PublishedYes),
     StatusRow(HandleB, NaN, NaN, PublishedFALSE),
     StatusRow(HandleB, NaN, OptBlank, PublishedOne),
     OverflowRow}

\* a row given by its handle, first option value, Image Src and Variant Image
ImageRow(handle, o1, src, variant_image) ==
    [OptionRow(handle, o1, NaN, NaN) EXCEPT !["Image Src"] = src,
                                           !["Variant Image"] = variant_image]

UrlA == Str(<<"a">>)
UrlB == Str(<<"b">>)
UrlAB == Str(<<"a", "b">>)
UrlUpperB == Str(<<"B">>)

\* rows that differ in Image Src and Variant Image
ImageRows ==
    {ImageRow(HandleA, OptS, UrlB, NaN),
     ImageRow(HandleA, OptS, UrlA, UrlB),
     ImageRow(HandleA, OptM, NaN, UrlAB),
     ImageRow(HandleA, NaN, UrlUpperB, NaN),
     ImageRow(HandleB, OptDefault, UrlA, UrlA),
     ImageRow(HandleB, NaN, UrlAB, NaN),
     ImageRow(NaN, OptM, NaN, UrlUpperB),
     OverflowRow}

\* a row of handle "a" given by its first option value, SKU, barcodes, prices and
\* quantity
NumberRow(o1, sku, variant_barcode, barcode, price, compare, variant_compare, qty) ==
    [OptionRow(HandleA, o1, NaN, sku) EXCEPT
        !["Variant Barcode"] = variant_barcode, !["Barcode"] = barcode,
        !["Variant Price"] = price, !["Compare At Price"] = compare,
        !["Variant Compare At Price"] = variant_compare,
        !["Variant Inventory Qty"] = qty]

NotANumber == Str(<<"a", "b", "c">>)
SkuY == Str(<<"Y">>)

\* rows that differ in SKU, barcodes, prices and quantity: blank, not a number,
\* zero, a number, a number written as text
NumberRows ==
    {NumberRow(OptDefault, NaN, NaN, NaN, NaN, NaN, NaN, NaN),
     NumberRow(OptDefaultLower, NaN, NaN, NaN, NotANumber, NotANumber, Float(7), NotANumber),
     NumberRow(OptS, SkuX, Str(<<"1">>), NaN, Float(5), NaN, Float(7), Float(3)),
     NumberRow(OptS, NaN, NaN, Str(<<"2">>), Float(0), Float(0), NaN, Float(0)),
     NumberRow(NaN, NaN, NaN, Str(<<"2">>), Str(<<"7">>), Float(9), NaN, Str(<<" ", "4">>)),
     NumberRow(OptBlank, OptBlank, NaN, NaN, NaN, NaN, NaN, NaN),
     NumberRow(OptS, OptBlank, Str(<<"3">>), Str(<<"2">>), Float(9), NaN, NaN, Float(2)),
     NumberRow(NaN, SkuY, NaN, NaN, NotANumber, NaN, NotANumber, Float(6)),
     [NumberRow(NaN, NaN, NaN, Str(<<"2">>), Str(<<"7">>), Float(9), NaN, NaN)
         EXCEPT !["Handle"] = HandleB],
     OverflowRow}

OptSkuOnly == Str(<<"S", "k", "u", "_", "O", "n", "l", "y">>)
OptX == Str(<<"x">>)
SkuXPadded == Str(<<" ", "X", " ">>)
SkuXLower == Str(<<"x">>)

\* a row of handle "a" given by its option values, SKU, Variant Barcode and price
KeyRow(o1, o2, sku, variant_barcode, price) ==
    [OptionRow(HandleA, o1, o2, sku) EXCEPT !["Variant Barcode"] = variant_barcode,
                                           !["Variant Price"] = price]

\* rows whose keys are built from option values or from the SKU alone, among
\* them option values that spell the tag of the SKU keys
KeyRows ==
    {KeyRow(OptS, NaN, NaN, NaN, NaN),
     KeyRow(OptSLower, NaN, SkuX, NaN, NaN),
     KeyRow(OptSkuOnly, OptX, NaN, NaN, Float(5)),
     KeyRow(NaN, NaN, SkuX, NaN, Float(7)),
     KeyRow(NaN, NaN, SkuXPadded, Str(<<"1">>), Float(9)),
     KeyRow(NaN, NaN, SkuXLower, NaN, NaN),
     KeyRow(NaN, NaN, NaN, Str(<<"2">>), Float(3)),
     KeyRow(OptDefault, NaN, SkuX, NaN, NaN),
     OverflowRow}

\* the text of a cell followed by a mark, an empty cell staying empty
Marked(cell, mark) == IF cell.t = "nan" THEN NaN ELSE Str(cell.s \o <<mark>>)

\* a row given by its handle, first option value, Type, Product Category, the
\* two Google category columns, and a text written, with the mark of the
\* column, in each of the other shared columns
AttributeRow(handle, o1, text, type, category, google, legacy) ==
    [OptionRow(handle, o1, NaN, NaN) EXCEPT
        !["Title"] = Marked(text, "t"), !["Body (HTML)"] = Marked(text, "b"),
        !["Vendor"] = Marked(text, "v"), !["Tags"] = Marked(text, "g"),
        !["SEO Title"] = Marked(text, "s"), !["SEO Description"] = Marked(text, "d"),
        !["Created At"] = Marked(text, "c"),
        !["Type"] = type, !["Product Category"] = category,
        !["Google Shopping / Google Product Category"] = google,
        !["Google Product Category"] = legacy]

TextOne == Str(<<"1">>)
TextTwo == Str(<<"2">>)
TextThree == Str(<<"3">>)
TypeT == Str(<<"T">>)
TypeU == Str(<<"U">>)
CategoryC == Str(<<"C">>)
CategoryD == Str(<<"D">>)
GoogleG == Str(<<"G">>)
LegacyK == Str(<<"K">>)
LegacyL == Str(<<"L">>)

\* rows that differ in the shared columns
AttributeRows ==
    {AttributeRow(HandleA, OptS, TextOne, NaN, NaN, NaN, NaN),
     AttributeRow(HandleA, OptS, NaN, TypeT, NaN, NaN, LegacyL),
     AttributeRow(HandleA, OptM, TextTwo, TypeU, CategoryC, GoogleG, NaN),
     AttributeRow(HandleA, NaN, TextThree, NaN, CategoryD, NaN, LegacyK),
     AttributeRow(HandleA, NaN, NaN, NaN, NaN, NaN, NaN),
     AttributeRow(HandleB, OptDefault, TextTwo, TypeT, NaN, NaN, NaN),
     AttributeRow(HandleB, NaN, OptBlank, NaN, CategoryC, NaN, NaN),
     AttributeRow(NaN, OptM, TextOne, NaN, CategoryC, GoogleG, NaN),
     OverflowRow}

\* the tables of at most n rows drawn from a set of rows
TablesOf(rows, n) == UNION {[1..k -> rows] : k \in 0..n}

\* a table cut to the columns of a header
WithColumns(table, cols) == [k \in DOMAIN table |-> Project(table[k], cols)]

\* the files of a scenario: [columns, rows].  Every scenario has the full header
\* over its rows, a header without "Handle", and a header of "Handle" alone
FilesOf(rows) ==
    {[columns |-> AllColumns, rows |-> t] : t \in TablesOf(rows, MaxRows)}
    \cup {[columns |-> AllColumns \ {"Handle"},
           rows |-> WithColumns(t, AllColumns \ {"Handle"})] : t \in TablesOf(rows, 1)}
    \cup {[columns |-> {"Handle"}, rows |-> WithColumns(t, {"Handle"})] :
            t \in TablesOf(rows, 2)}

Files ==
    CASE scenario = "core" -> FilesOf(CoreRows)
      [] scenario = "variants" -> FilesOf(VariantRows)
      [] scenario = "status" -> FilesOf(StatusRows)
      [] scenario = "images" -> FilesOf(ImageRows)
      [] scenario = "numbers" -> FilesOf(NumberRows)
      [] scenario = "keys" -> FilesOf(KeyRows)
      [] scenario = "attributes" -> FilesOf(AttributeRows)

Suffixes == {<<".", "c", "s", "v">>, <<".", "X", "L", "S", "X">>, <<".", "t", "x", "t">>}

-----------------------------------------------------------------------------
(* The run of shopify_to_ikas_converter *)

InitOf(sc) ==
    /\ pc = "start"
    /\ scenario = sc
    /\ \/ path_exists = FALSE /\ suffix = <<".", "c", "s", "v">>
       \/ path_exists = TRUE /\ suffix \in Suffixes
    /\ file_handles = <<>>
    /\ source_df = [columns |-> {}, rows |-> <<>>]
    /\ handle_groups = <<>>
    /\ gi = 0
    /\ common_info = <<>>
    /\ image_urls = <<>>
    /\ handle_status = <<>>
    /\ variant_combinations = <<>>
    /\ ikas_rows = <<>>
    /\ ikas_df = <<>>
    /\ exc = "none"

Init == InitOf("core")

\* raise <exception>
Raise(name) ==
    /\ pc' = "raised"
    /\ exc' = name

\* if not path.exists(): raise FileNotFoundError
RaiseFileNotFound ==
    /\ pc = "start"
    /\ ~path_exists
    /\ Raise("FileNotFoundError")
    /\ UNCHANGED <<scenario, path_exists, suffix, file_handles, source_df, handle_groups, gi,
                   common_info, image_urls, handle_status, variant_combinations,
                   ikas_rows, ikas_df>>

\* the file read into source_df
Load(f) ==
    /\ file_handles' = [k \in DOMAIN f.rows |->
                            IF "Handle" \in f.columns THEN f.rows[k]["Handle"] ELSE NaN]
    /\ source_df' = f
    /\ pc' = "loaded"
    /\ UNCHANGED <<scenario, path_exists, suffix, handle_groups, gi, common_info,
                   image_urls, handle_status, variant_combinations, ikas_rows, ikas_df,
                   exc>>

\* source_df = pd.read_csv(path)
ReadCsv ==
    /\ pc = "start"
    /\ path_exists
    /\ lower(suffix) = <<".", "c", "s", "v">>
    /\ \E f \in Files : Load(f)

\* source_df = pd.read_excel(path)
ReadExcel ==
    /\ pc = "start"
    /\ path_exists
    /\ lower(suffix) # <<".", "c", "s", "v">>
    /\ lower(suffix) \in {<<".", "x", "l", "s", "x">>, <<".", "x", "l", "s">>}
    /\ \E f \in Files : Load(f)

\* raise ValueError("Unsupported file extension ...")
RaiseUnsupported ==
    /\ pc = "start"
    /\ path_exists
    /\ lower(suffix) # <<".", "c", "s", "v">>
    /\ lower(suffix) \notin {<<".", "x", "l", "s", "x">>, <<".", "x", "l", "s">>}
    /\ Raise("ValueError")
    /\ UNCHANGED <<scenario, path_exists, suffix, file_handles, source_df, handle_groups, gi,
                   common_info, image_urls, handle_status, variant_combinations,
                   ikas_rows, ikas_df>>

\* if "Handle" not in source_df.columns: raise ValueError
RaiseNoHandle ==
    /\ pc = "loaded"
    /\ "Handle" \notin source_df.columns
    /\ Raise("ValueError")
    /\ UNCHANGED <<scenario, path_exists, suffix, file_handles, source_df, handle_groups, gi,
                   common_info, image_urls, handle_status, variant_combinations,
                   ikas_rows, ikas_df>>

\* source_df["Handle"] = source_df["Handle"].ffill(); handle_groups = groupby(...)
FillAndGroup ==
    /\ pc = "loaded"
    /\ "Handle" \in source_df.columns
    /\ source_df' = [source_df EXCEPT !.rows = ffill(@)]
    /\ handle_groups' = groupby(ffill(source_df.rows))
    /\ gi' = 1
    /\ pc' = "aggregate"
    /\ UNCHANGED <<scenario, path_exists, suffix, file_handles, common_info, image_urls,
                   handle_status, variant_combinations, ikas_rows, ikas_df, exc>>

\* one iteration of the first "for handle, group_df in handle_groups"
Aggregate ==
    /\ pc = "aggregate"
    /\ gi <= Len(handle_groups)
    /\ LET g == handle_groups[gi]
           rows == group_df(source_df.rows, g)
       IN  /\ handle_status' = (g.handle :> handle_visible(rows)) @@ handle_status
           /\ common_info' = (g.handle :> common_of(rows)) @@ common_info
           /\ image_urls' = (g.handle :> images_of(rows)) @@ image_urls
    /\ gi' = gi + 1
    /\ UNCHANGED <<pc, scenario, path_exists, suffix, file_handles, source_df, handle_groups,
                   variant_combinations, ikas_rows, ikas_df, exc>>

\* the first loop is over: ikas_rows = [] and the second loop starts
StartEmit ==
    /\ pc = "aggregate"
    /\ gi > Len(handle_groups)
    /\ ikas_rows' = <<>>
    /\ gi' = 1
    /\ pc' = "emit"
    /\ UNCHANGED <<scenario, path_exists, suffix, file_handles, source_df, handle_groups,
                   common_info, image_urls, handle_status, variant_combinations,
                   ikas_df, exc>>

\* what the second loop leaves alone
EmitFrame ==
    UNCHANGED <<scenario, path_exists, suffix, file_handles, source_df, handle_groups,
                common_info, image_urls, handle_status, ikas_df>>

\* the values fixed for a handle before its buckets are emitted
variant_context(g, rows) ==
    [handle |-> g.handle,
     common |-> common_info[g.handle],
     images |-> image_urls[g.handle],
     satis_kanali |-> satis_kanali_of(handle_status[g.handle]),
     variant_type_1 |-> variant_type(rows, "Option1 Name"),
     variant_type_2 |-> variant_type(rows, "Option2 Name")]

\* an iteration of the second loop for a simple product: one row is appended
EmitSimple ==
    /\ pc = "emit"
    /\ gi <= Len(handle_groups)
    /\ LET g == handle_groups[gi]
           rows == group_df(source_df.rows, g)
           m == merge_simple(rows)
       IN  /\ is_simple_product(rows)
           /\ m.raised = "none"
           /\ ikas_rows' = Append(ikas_rows,
                  simple_row(g.handle, common_info[g.handle], image_urls[g.handle], m,
                             satis_kanali_of(handle_status[g.handle])))
    /\ gi' = gi + 1
    /\ UNCHANGED <<pc, exc, variant_combinations>>
    /\ EmitFrame

\* an iteration of the second loop for a handle with buckets: one row per bucket
EmitVariants ==
    /\ pc = "emit"
    /\ gi <= Len(handle_groups)
    /\ LET g == handle_groups[gi]
           rows == group_df(source_df.rows, g)
           buckets == buckets_of(source_df.rows, g)
           out == variant_rows(source_df.rows, variant_context(g, rows), buckets)
       IN  /\ ~is_simple_product(rows)
           /\ buckets # <<>>
           /\ out.raised = "none"
           /\ variant_combinations' = buckets
           /\ ikas_rows' = ikas_rows \o out.rows
    /\ gi' = gi + 1
    /\ UNCHANGED <<pc, exc>>
    /\ EmitFrame

\* EmitFallback appending no row
EmitFallback_no_row ==
    /\ pc = "emit"
    /\ gi <= Len(handle_groups)
    /\ LET g == handle_groups[gi]
           rows == group_df(source_df.rows, g)
           buckets == buckets_of(source_df.rows, g)
       IN  /\ ~is_simple_product(rows)
           /\ buckets = <<>>
           /\ merge_fallback(rows).raised = "none"
           /\ variant_combinations' = buckets
    /\ gi' = gi + 1
    /\ UNCHANGED <<pc, exc, ikas_rows>>
    /\ EmitFrame

\* an iteration of the second loop for a handle without buckets: one row is appended
EmitFallback ==
    /\ pc = "emit"
    /\ gi <= Len(handle_groups)
    /\ LET g == handle_groups[gi]
           rows == group_df(source_df.rows, g)
           buckets == buckets_of(source_df.rows, g)
           m == merge_fallback(rows)
       IN  /\ ~is_simple_product(rows)
           /\ buckets = <<>>
           /\ m.raised = "none"
           /\ variant_combinations' = buckets
           /\ ikas_rows' = Append(ikas_rows,
                  fallback_row(g.handle, common_info[g.handle], image_urls[g.handle], m,
                               satis_kanali_of(handle_status[g.handle])))
    /\ gi' = gi + 1
    /\ UNCHANGED <<pc, exc>>
    /\ EmitFrame

\* an iteration of the second loop in which a merge raises an exception that no
\* "except" clause names: the run ends, with the rows appended before it
RaiseInMerge ==
    /\ pc = "emit"
    /\ gi <= Len(handle_groups)
    /\ LET g == handle_groups[gi]
           rows == group_df(source_df.rows, g)
           buckets == buckets_of(source_df.rows, g)
           out == variant_rows(source_df.rows, variant_context(g, rows), buckets)
       IN  \/ /\ is_simple_product(rows)
              /\ merge_simple(rows).raised # "none"
              /\ Raise(merge_simple(rows).raised)
              /\ UNCHANGED <<variant_combinations, ikas_rows>>
           \/ /\ ~is_simple_product(rows)
              /\ buckets # <<>>
              /\ out.raised # "none"
              /\ Raise(out.raised)
              /\ variant_combinations' = buckets
              /\ ikas_rows' = ikas_rows \o out.rows
           \/ /\ ~is_simple_product(rows)
              /\ buckets = <<>>
              /\ merge_fallback(rows).raised # "none"
              /\ Raise(merge_fallback(rows).raised)
              /\ variant_combinations' = buckets
              /\ UNCHANGED ikas_rows
    /\ UNCHANGED gi
    /\ EmitFrame

\* ikas_df = pd.DataFrame(ikas_rows, columns=IKAS_COLUMNS); return ikas_df
Return ==
    /\ pc = "emit"
    /\ gi > Len(handle_groups)
    /\ ikas_df' = ikas_rows
    /\ pc' = "done"
    /\ UNCHANGED <<scenario, path_exists, suffix, file_handles, source_df, handle_groups, gi,
                   common_info, image_urls, handle_status, variant_combinations,
                   ikas_rows, exc>>

Next ==
    \/ RaiseFileNotFound
    \/ ReadCsv
    \/ ReadExcel
    \/ RaiseUnsupported
    \/ RaiseNoHandle
    \/ FillAndGroup
    \/ Aggregate
    \/ StartEmit
    \/ EmitSimple
    \/ EmitVariants
    \/ EmitFallback
    \/ RaiseInMerge
    \/ Return

Spec == Init /\ [][Next]_vars

\* the same run over the files of the other scenarios
InitVariants == InitOf("variants")
SpecVariants == InitVariants /\ [][Next]_vars

InitStatus == InitOf("status")
SpecStatus == InitStatus /\ [][Next]_vars

InitImages == InitOf("images")
SpecImages == InitImages /\ [][Next]_vars

InitNumbers == InitOf("numbers")
SpecNumbers == InitNumbers /\ [][Next]_vars

InitKeys == InitOf("keys")
SpecKeys == InitKeys /\ [][Next]_vars

InitAttributes == InitOf("attributes")
SpecAttributes == InitAttributes /\ [][Next]_vars

-----------------------------------------------------------------------------
(* Properties *)

Done == pc = "done"

RECURSIVE Resolved(_)
\* the handle row k of the file resolves to: its own, else that of the row above
Resolved(k) ==
    IF k = 0 THEN NaN
    ELSE IF file_handles[k].t # "nan" THEN file_handles[k]
    ELSE Resolved(k - 1)

\* the distinct resolved handles of the file
Handles == {Resolved(k) : k \in DOMAIN file_handles} \ {NaN}

\* the rows of the file that resolve to handle h
RowsOf(h) == {k \in DOMAIN file_handles : Resolved(k) = h}

\* the rows of the returned table that belong to handle h
OutputOf(h) == {n \in DOMAIN ikas_df : ikas_df[n].Slug = h}

\* the cell of row k of the loaded table in a column; blank if the file has no
\* such column
Cell(k, col) == IF col \in source_df.columns THEN source_df.rows[k][col] ELSE NaN

\* an option cell holding "Default Title" in some letter case
IsDefaultTitle(cell) ==
    cell.t = "str"
    /\ lower(cell.s) = <<"d", "e", "f", "a", "u", "l", "t", " ", "t", "i", "t", "l", "e">>

\* an output row with blank group id and blank variant-axis names and values
BlankVariantFields(r) ==
    /\ r.Urun_Grup_ID = Empty
    /\ r.Varyant_Tip_1 = Empty /\ r.Varyant_Deger_1 = Empty
    /\ r.Varyant_Tip_2 = Empty /\ r.Varyant_Deger_2 = Empty

\* C1: in every returned table, every distinct resolved handle of the file has at
\* least one output row.
C1_EveryHandleHasARow ==
    Done => \A h \in Handles : OutputOf(h) # {}

\* C1 witness: a table was returned for a file with two handles, one of them
\* with no option value and no SKU in any of its rows.
C1_Witness ==
    /\ Done
    /\ Cardinality(Handles) = 2
    /\ \E h \in Handles : \A k \in RowsOf(h) : skipped(source_df.rows[k])
    /\ \A h \in Handles : OutputOf(h) # {}

\* C3: a handle whose every row has Option1 Value "Default Title" (any letter
\* case) has exactly one output row, with blank group id and blank variant-axis
\* names and values.
C3_AllDefaultTitleIsOneBlankRow ==
    Done =>
        \A h \in Handles :
            (\A k \in RowsOf(h) : IsDefaultTitle(Cell(k, "Option1 Value")))
            => /\ Cardinality(OutputOf(h)) = 1
               /\ \A n \in OutputOf(h) : BlankVariantFields(ikas_df[n])

\* C3 witness: a returned table for a handle of two rows, both "Default Title",
\* in different letter cases and one of them with an SKU.
C3_Witness ==
    /\ Done
    /\ \E h \in Handles :
        /\ Cardinality(RowsOf(h)) = 2
        /\ \A k \in RowsOf(h) : IsDefaultTitle(Cell(k, "Option1 Value"))
        /\ \E k \in RowsOf(h) : Cell(k, "Option1 Value") = OptDefaultLower
        /\ \E k \in RowsOf(h) : Cell(k, "Variant SKU") = SkuX
        /\ Cardinality(OutputOf(h)) = 1

\* C6: once the handles are filled, every row carries its resolved handle; a row
\* is in the group of its resolved handle and in no other; a row above the first
\* non-blank handle is in no group; and every output row belongs to a resolved
\* handle.
C6_ForwardFill ==
    pc \in {"aggregate", "emit", "done"} =>
        /\ \A k \in DOMAIN file_handles : source_df.rows[k]["Handle"] = Resolved(k)
        /\ \A n \in DOMAIN handle_groups :
              {handle_groups[n].idx[m] : m \in DOMAIN handle_groups[n].idx}
                  = RowsOf(handle_groups[n].handle)
        /\ \A k \in DOMAIN file_handles :
              Resolved(k) = NaN =>
                  \A n \in DOMAIN handle_groups :
                      \A m \in DOMAIN handle_groups[n].idx : handle_groups[n].idx[m] # k
        /\ {handle_groups[n].handle : n \in DOMAIN handle_groups} = Handles
        /\ \A n \in DOMAIN ikas_rows : ikas_rows[n].Slug \in Handles

\* C6 witness: a returned table for a file whose first row has a blank handle and
\* whose last row has a blank handle below a non-blank one.
C6_Witness ==
    /\ Done
    /\ Len(file_handles) = 3
    /\ file_handles[1] = NaN /\ file_handles[2] # NaN /\ file_handles[3] = NaN
    /\ source_df.rows[3]["Handle"] = file_handles[2]
    /\ Len(ikas_df) >= 1

-----------------------------------------------------------------------------
(* Properties of the variant rows, visibility, images and merged fields *)

\* the least element of a non-empty set of row numbers
Least(K) == CHOOSE k \in K : \A m \in K : k <= m

\* a normalised option value: trimmed, uppercased, and
\* "DEFAULT TITLE" taken as blank
Norm(cell) ==
    IF cell.t = "nan" THEN <<>>
    ELSE IF upper(strip(str(cell))) = DEFAULT_TITLE THEN <<>>
    ELSE upper(strip(str(cell)))

\* the normalised option-value pair of row k
Combination(k) == <<Norm(Cell(k, "Option1 Value")), Norm(Cell(k, "Option2 Value"))>>

BlankCombination == <<<<>>, <<>>>>

\* the distinct non-blank combinations of handle h
Combinations(h) == {Combination(k) : k \in RowsOf(h)} \ {BlankCombination}

\* the trimmed SKU of row k
TrimmedSku(k) ==
    IF Cell(k, "Variant SKU").t = "nan" THEN <<>> ELSE strip(str(Cell(k, "Variant SKU")))

\* row k has no non-blank option value but a non-blank SKU
SkuOnlyRow(k) == Combination(k) = BlankCombination /\ TrimmedSku(k) # <<>>

\* row k has neither a non-blank option value nor a non-blank SKU
NoSignalRow(k) == Combination(k) = BlankCombination /\ TrimmedSku(k) = <<>>

\* the first row of handle h carries "Default Title" (trimmed, any case)
FirstRowDefaultTitle(h) ==
    /\ Cell(Least(RowsOf(h)), "Option1 Value").t # "nan"
    /\ upper(strip(str(Cell(Least(RowsOf(h)), "Option1 Value")))) = DEFAULT_TITLE

FirstCell(h, col) ==
    IF \A k \in RowsOf(h) : Cell(k, col).t = "nan" THEN NaN
    ELSE Cell(Least({k \in RowsOf(h) : Cell(k, col).t # "nan"}), col)

\* the resolved status of handle h is "ACTIVE"
StatusIsActive(h) ==
    FirstCell(h, "Status").t # "nan" /\ upper(strip(str(FirstCell(h, "Status")))) = ACTIVE

\* the published flag of handle h is TRUE, 1 or YES
PublishedIsTrue(h) ==
    /\ FirstCell(h, "Published").t # "nan"
    /\ upper(strip(str(FirstCell(h, "Published")))) \in PublishedTrue

\* every output row of h carries this value in the sales-channel field
SalesChannelIs(h, value) == \A n \in OutputOf(h) : ikas_df[n].Satis_Kanali_belix = value

\* C4 with status and published flag as alternatives: VISIBLE on every row
\* of a handle whose resolved status is ACTIVE
\* or whose published flag is TRUE/1/YES, blank on the rows of every other handle.
C4_Original ==
    Done =>
        \A h \in Handles :
            IF StatusIsActive(h) \/ PublishedIsTrue(h)
            THEN SalesChannelIs(h, Str(VISIBLE)) ELSE SalesChannelIs(h, Empty)

\* C4 amended: the published flag counts only for a handle none of whose rows
\* has a Status value; a handle with a Status value is visible exactly when the
\* first such value is ACTIVE (trimmed, any case).
C4_Visibility ==
    Done =>
        \A h \in Handles :
            IF \/ StatusIsActive(h)
               \/ FirstCell(h, "Status").t = "nan" /\ PublishedIsTrue(h)
            THEN SalesChannelIs(h, Str(VISIBLE)) ELSE SalesChannelIs(h, Empty)

\* C4 witness: a returned table with a handle made visible by its status on two
\* variant rows, and a handle made visible by its published flag alone.
C4_Witness ==
    /\ Done
    /\ \E h \in Handles :
          StatusIsActive(h) /\ Cardinality(OutputOf(h)) = 2
          /\ SalesChannelIs(h, Str(VISIBLE))
    /\ \E h \in Handles :
          FirstCell(h, "Status").t = "nan" /\ PublishedIsTrue(h)
          /\ OutputOf(h) # {} /\ SalesChannelIs(h, Str(VISIBLE))

\* the non-blank Image Src and Variant Image values of the rows of handle h
ImageUnion(h) ==
    ({str(Cell(k, "Image Src")) : k \in {m \in RowsOf(h) : Cell(m, "Image Src").t # "nan"}}
     \cup {str(Cell(k, "Variant Image")) :
              k \in {m \in RowsOf(h) : Cell(m, "Variant Image").t # "nan"}})
    \ {<<>>}

\* q lists every element of U once, in ascending lexicographic order
SortedListing(q, U) ==
    /\ {q[n] : n \in DOMAIN q} = U
    /\ \A n, m \in DOMAIN q : n < m => StrLess(q[n], q[m])

\* C5: on every output row of a handle, Resim URL is the ";"-joined, sorted,
\* duplicate-free list of the non-blank Image Src and Variant Image values of all
\* rows of the handle.
C5_ImageList ==
    Done =>
        \A h \in Handles :
            \E q \in [1..Cardinality(ImageUnion(h)) -> ImageUnion(h)] :
                /\ SortedListing(q, ImageUnion(h))
                /\ \A n \in OutputOf(h) : ikas_df[n].Resim_URL = Str(join(<<";">>, q))

\* C5 witness: a variant-bearing handle with two output rows and four distinct
\* URLs over its three rows, one of them on a row that is in no bucket; both
\* output rows carry the same sorted list.
C5_Witness ==
    /\ Done
    /\ \E h \in Handles :
        /\ Cardinality(OutputOf(h)) = 2
        /\ Cardinality(ImageUnion(h)) = 4
        /\ \E k \in RowsOf(h) : NoSignalRow(k) /\ Cell(k, "Image Src") = UrlUpperB
        /\ \E k \in RowsOf(h) : Cell(k, "Variant Image") = UrlB
        /\ \A n \in OutputOf(h) :
              ikas_df[n].Resim_URL = Str(<<"B", ";", "a", ";", "a", "b", ";", "b">>)

\* the SKU merged over the rows K: that of the first row that has one
MergedSku(K) ==
    IF \A k \in K : Cell(k, "Variant SKU").t = "nan" THEN Empty
    ELSE Str(str(Cell(Least({k \in K : Cell(k, "Variant SKU").t # "nan"}), "Variant SKU")))

\* the barcode of row k: Variant Barcode, else Barcode
BarcodeCell(k) ==
    IF Cell(k, "Variant Barcode").t # "nan" THEN Cell(k, "Variant Barcode")
    ELSE Cell(k, "Barcode")

\* the barcode merged over the rows K: that of the first row that has one
MergedBarcode(K) ==
    IF \A k \in K : BarcodeCell(k).t = "nan" THEN Empty
    ELSE Str(str(BarcodeCell(Least({k \in K : BarcodeCell(k).t # "nan"}))))

\* the cell holds a number other than zero
NonZeroFloat(cell) == cell.t # "nan" /\ float(cell).ok /\ float(cell).val # Float(0)
NonZeroInt(cell) == cell.t # "nan" /\ int(cell).ok /\ int(cell).val # Float(0)

\* the sale price merged over the rows K: the first non-zero number
MergedPrice(K) ==
    IF \A k \in K : ~NonZeroFloat(Cell(k, "Variant Price")) THEN Float(0)
    ELSE float(Cell(Least({k \in K : NonZeroFloat(Cell(k, "Variant Price"))}),
                    "Variant Price")).val

\* the compare price of row k: Compare At Price, else Variant Compare At Price
CompareCell(k) ==
    IF Cell(k, "Compare At Price").t # "nan" THEN Cell(k, "Compare At Price")
    ELSE Cell(k, "Variant Compare At Price")

\* the discounted price merged over the rows K: the first non-zero number
MergedCompare(K) ==
    IF \A k \in K : ~NonZeroFloat(CompareCell(k)) THEN Float(0)
    ELSE float(CompareCell(Least({k \in K : NonZeroFloat(CompareCell(k))}))).val

\* the stock merged over the rows K: the first non-zero whole number
MergedStock(K) ==
    IF \A k \in K : ~NonZeroInt(Cell(k, "Variant Inventory Qty")) THEN Float(0)
    ELSE int(Cell(Least({k \in K : NonZeroInt(Cell(k, "Variant Inventory Qty"))}),
                  "Variant Inventory Qty")).val

\* output row r carries the fields merged over the rows K
MergedOver(r, K) ==
    /\ r.SKU = MergedSku(K)
    /\ r.Barkod_Listesi = MergedBarcode(K)
    /\ r.Satis_Fiyati = MergedPrice(K)
    /\ r.Indirimli_Fiyati = MergedCompare(K)
    /\ r.Stok_Ana_Depo = MergedStock(K)

\* C7: no bucket holds a row that has neither a non-blank option value nor a
\* non-blank SKU, and no bucket is empty; a variant-bearing handle all of whose
\* rows are such rows has exactly one output row, with blank group id and blank
\* variant fields, merged over all its rows.
C7_NoSignalRows ==
    /\ \A b \in DOMAIN variant_combinations :
          /\ variant_combinations[b].rows # <<>>
          /\ \A m \in DOMAIN variant_combinations[b].rows :
                ~NoSignalRow(variant_combinations[b].rows[m])
    /\ Done =>
          \A h \in Handles :
              (~FirstRowDefaultTitle(h) /\ \A k \in RowsOf(h) : NoSignalRow(k))
              => /\ Cardinality(OutputOf(h)) = 1
                 /\ \A n \in OutputOf(h) :
                       BlankVariantFields(ikas_df[n]) /\ MergedOver(ikas_df[n], RowsOf(h))

\* C7 witness: handle "b" has one row, without option value or SKU but with a
\* barcode and prices, and gave one row with blank group id carrying them; handle
\* "a" has a row with an option value and a row without option value or SKU, and
\* its one bucket holds the first of them only.
C7_Witness ==
    /\ Done
    /\ Len(file_handles) = 3
    /\ Resolved(1) = HandleB /\ Resolved(2) = HandleA /\ Resolved(3) = HandleA
    /\ NoSignalRow(1) /\ ~NoSignalRow(2) /\ NoSignalRow(3)
    /\ Len(variant_combinations) = 1
    /\ variant_combinations[1].rows = <<2>>
    /\ Len(ikas_df) = 2
    /\ BlankVariantFields(ikas_df[1])
    /\ ikas_df[1].Barkod_Listesi = Str(<<"2">>)
    /\ ikas_df[1].Satis_Fiyati = Float(7)
    /\ ikas_df[1].Indirimli_Fiyati = Float(9)
    /\ ikas_df[2].Urun_Grup_ID = HandleA

\* C8: a run that fails has appended no output row: every failure comes
\* before the first row is appended.
C8_NoRowBeforeFailure ==
    pc = "raised" => ikas_rows = <<>>

\* C9: once a table with a Handle column is loaded, no price or
\* quantity cell makes the run fail.
C9_NeverAborts ==
    pc = "raised" => gi = 0

\* C10: a handle whose first row is "Default Title" (trimmed, any case) has
\* exactly one output row, with blank group id and blank variant fields, its SKU,
\* barcode, prices and stock merged over all rows of the handle, whatever the
\* option values of the other rows.
C10_FirstRowDecides ==
    Done =>
        \A h \in Handles :
            FirstRowDefaultTitle(h) =>
                /\ Cardinality(OutputOf(h)) = 1
                /\ \A n \in OutputOf(h) :
                      BlankVariantFields(ikas_df[n]) /\ MergedOver(ikas_df[n], RowsOf(h))

\* C10 witness: the first row is "Default Title" with no values, a later row has
\* option value "S", an SKU, a barcode, prices and stock; the one output row
\* carries the later row's values.
C10_Witness ==
    /\ Done
    /\ Len(ikas_df) = 1
    /\ \E h \in Handles :
        /\ FirstRowDefaultTitle(h)
        /\ Cardinality(RowsOf(h)) = 3
        /\ Cell(1, "Variant SKU") = NaN
        /\ \E k \in RowsOf(h) : Cell(k, "Option1 Value") = OptS /\ Cell(k, "Variant SKU") = SkuX
        /\ \E k \in RowsOf(h) : Cell(k, "Variant Price") = NotANumber
    /\ ikas_df[1].SKU = SkuX
    /\ ikas_df[1].Satis_Fiyati = Float(5)
    /\ ikas_df[1].Stok_Ana_Depo = Float(3)
    /\ BlankVariantFields(ikas_df[1])

-----------------------------------------------------------------------------
(* Per-handle lifecycle *)

\* the handles the second loop has gone through
Processed == {handle_groups[j].handle : j \in 1..(gi - 1)}

\* the rows appended so far that belong to handle h
AppendedOf(h) == {n \in DOMAIN ikas_rows : ikas_rows[n].Slug = h}

\* handle h has a row with an option value or an SKU
HasSignal(h) == \E k \in RowsOf(h) : ~NoSignalRow(k)

RECURSIVE SumOfAppended(_)
\* the number of appended rows summed over a set of handles
SumOfAppended(H) ==
    IF H = {} THEN 0
    ELSE LET h == CHOOSE x \in H : TRUE
         IN  Cardinality(AppendedOf(h)) + SumOfAppended(H \ {h})

\* what the second loop has built after some of its iterations: each handle
\* appears once in handle_groups, every appended row belongs to a handle gone
\* through, a handle gone through has one row unless it has buckets, and its
\* rows carry a group id, the handle, exactly when it has buckets
LifecycleState ==
    pc \in {"emit", "done"} =>
        /\ {handle_groups[j].handle : j \in DOMAIN handle_groups} = Handles
        /\ Len(handle_groups) = Cardinality(Handles)
        /\ \A n \in DOMAIN ikas_rows : ikas_rows[n].Slug \in Processed
        /\ Len(ikas_rows) = SumOfAppended(Processed)
        /\ \A h \in Processed :
              /\ AppendedOf(h) # {}
              /\ IF ~FirstRowDefaultTitle(h) /\ HasSignal(h)
                 THEN \A n \in AppendedOf(h) : ikas_rows[n].Urun_Grup_ID = h
                 ELSE /\ Cardinality(AppendedOf(h)) = 1
                      /\ \A n \in AppendedOf(h) : ikas_rows[n].Urun_Grup_ID = Empty

\* one iteration of the second loop: it handles the next handle, keeps the rows
\* appended before, and appends one row with blank group id (first row "Default
\* Title", or no bucket), or one row per bucket with the handle as group id
LifecycleStep ==
    (pc = "emit" /\ gi' # gi) =>
        /\ gi' = gi + 1
        /\ Len(ikas_rows') >= Len(ikas_rows)
        /\ SubSeq(ikas_rows', 1, Len(ikas_rows)) = ikas_rows
        /\ LET h == handle_groups[gi].handle
               new == SubSeq(ikas_rows', Len(ikas_rows) + 1, Len(ikas_rows'))
           IN  /\ \A n \in DOMAIN new : new[n].Slug = h
               /\ IF FirstRowDefaultTitle(h)
                  THEN Len(new) = 1 /\ new[1].Urun_Grup_ID = Empty
                  ELSE IF HasSignal(h)
                  THEN /\ variant_combinations' # <<>>
                       /\ Len(new) = Len(variant_combinations')
                       /\ \A n \in DOMAIN new : new[n].Urun_Grup_ID = h
                  ELSE /\ variant_combinations' = <<>>
                       /\ Len(new) = 1 /\ new[1].Urun_Grup_ID = Empty

\* C11: every handle is handled once and ends with its rows emitted along one of
\* three paths: first row "Default Title", one row with blank group id; buckets,
\* one row per bucket with the handle as group id; no bucket, one row with blank
\* group id.  A row has a group id exactly when its handle has buckets, and the
\* table holds the rows of the handles and no other.
C11_Lifecycle ==
    []LifecycleState /\ [][LifecycleStep]_vars

\* C11 witness: a returned table for two handles, one with two buckets and two
\* rows carrying its group id, the other without bucket and with one row of
\* blank group id.
C11_Witness ==
    /\ Done
    /\ Cardinality(Handles) = 2
    /\ Len(ikas_df) = 3
    /\ \E h \in Handles :
          /\ ~FirstRowDefaultTitle(h) /\ HasSignal(h)
          /\ Cardinality(OutputOf(h)) = 2
          /\ \A n \in OutputOf(h) : ikas_df[n].Urun_Grup_ID = h
    /\ \E h \in Handles :
          /\ ~FirstRowDefaultTitle(h) /\ ~HasSignal(h)
          /\ \A n \in OutputOf(h) : ikas_df[n].Urun_Grup_ID = Empty

-----------------------------------------------------------------------------
(* Variant keys and buckets *)

\* the handle whose buckets variant_combinations holds: the last one the second
\* loop went through, if its first row is not "Default Title"
BucketHandles ==
    IF pc \in {"emit", "done"} /\ gi > 1 /\ ~FirstRowDefaultTitle(handle_groups[gi - 1].handle)
    THEN {handle_groups[gi - 1].handle} ELSE {}

\* the buckets that hold row k
BucketsWith(k) ==
    {b \in DOMAIN variant_combinations :
        \E i \in DOMAIN variant_combinations[b].rows : variant_combinations[b].rows[i] = k}

\* row k is identified by its option values
ByOptions(k) == Combination(k) # BlankCombination

\* rows j and k have the same Variant Key: the same normalised option pair, or,
\* both without option value, the same trimmed SKU
SameKey(j, k) ==
    IF ByOptions(j) /\ ByOptions(k) THEN Combination(j) = Combination(k)
    ELSE IF ~ByOptions(j) /\ ~ByOptions(k) THEN TrimmedSku(j) = TrimmedSku(k)
    ELSE FALSE

\* C12: among the rows of a handle that carry a variant signal, every row is in
\* exactly one bucket, two rows are in the same bucket if and only if they have
\* the same Variant Key (option values trimmed and uppercased, SKUs trimmed),
\* and the first member of a bucket is the first row of the handle with that key.
C12_SameKeySameBucket ==
    \A h \in BucketHandles :
        \A j \in RowsOf(h) :
            ~NoSignalRow(j) =>
                /\ Cardinality(BucketsWith(j)) = 1
                /\ \A k \in RowsOf(h) :
                      ~NoSignalRow(k) => (SameKey(j, k) <=> BucketsWith(j) = BucketsWith(k))
                /\ \A b \in BucketsWith(j) :
                      SameKey(j, variant_combinations[b].rows[1])
                      /\ variant_combinations[b].rows[1] <= j

\* C18: a row identified by its option values and a row identified by its SKU
\* alone are never members of the same bucket.
C18_OptionAndSkuRowsApart ==
    \A h \in BucketHandles :
        \A j \in RowsOf(h), k \in RowsOf(h) :
            (ByOptions(j) /\ SkuOnlyRow(k)) => BucketsWith(j) \cap BucketsWith(k) = {}

\* the distinct trimmed SKUs of the rows of handle h identified by their SKU alone
SkusOf(h) == {TrimmedSku(k) : k \in {m \in RowsOf(h) : SkuOnlyRow(m)}}

\* the rows of handle h identified by the SKU sku alone
RowsOfSku(h, sku) == {k \in RowsOf(h) : SkuOnlyRow(k) /\ TrimmedSku(k) = sku}

\* C19: a handle whose first row is not "Default Title", none of whose rows has a
\* non-blank normalised option value and one of whose rows has a non-blank SKU
\* has one output row per distinct trimmed SKU, each with the handle as group
\* id, blank variant values, that SKU, and barcode, prices and stock merged over
\* the rows of that SKU alone.
C19_SkuOnlyHandle ==
    Done =>
        \A h \in Handles :
            (/\ ~FirstRowDefaultTitle(h)
             /\ \A k \in RowsOf(h) : ~ByOptions(k)
             /\ SkusOf(h) # {})
            => /\ Cardinality(OutputOf(h)) = Cardinality(SkusOf(h))
               /\ \A sku \in SkusOf(h) :
                     \E n \in OutputOf(h) :
                        /\ ikas_df[n].SKU = Str(sku)
                        /\ ikas_df[n].Barkod_Listesi = MergedBarcode(RowsOfSku(h, sku))
                        /\ ikas_df[n].Satis_Fiyati = MergedPrice(RowsOfSku(h, sku))
                        /\ ikas_df[n].Indirimli_Fiyati = MergedCompare(RowsOfSku(h, sku))
                        /\ ikas_df[n].Stok_Ana_Depo = MergedStock(RowsOfSku(h, sku))
               /\ \A n \in OutputOf(h) :
                     /\ ikas_df[n].Urun_Grup_ID = h
                     /\ ikas_df[n].Varyant_Deger_1 = Empty
                     /\ ikas_df[n].Varyant_Deger_2 = Empty

\* C19 witness: a row with a barcode and a price but no SKU, then rows with the
\* SKUs "x" and " X "; two output rows with the handle as group id, the first
\* with SKU "x" and neither barcode nor price, the second with SKU "X" and the
\* barcode and price of its own row.
C19_Witness ==
    /\ Done
    /\ Len(file_handles) = 3
    /\ NoSignalRow(1) /\ Cell(1, "Variant Price") = Float(3)
    /\ Cell(2, "Variant SKU") = SkuXLower
    /\ Cell(3, "Variant SKU") = SkuXPadded
    /\ Len(ikas_df) = 2
    /\ ikas_df[1].Urun_Grup_ID = HandleA /\ ikas_df[2].Urun_Grup_ID = HandleA
    /\ ikas_df[1].SKU = SkuXLower
    /\ ikas_df[1].Barkod_Listesi = Empty /\ ikas_df[1].Satis_Fiyati = Float(0)
    /\ ikas_df[2].SKU = SkuX
    /\ ikas_df[2].Barkod_Listesi = Str(<<"1">>) /\ ikas_df[2].Satis_Fiyati = Float(9)

-----------------------------------------------------------------------------
(* Field merge of a bucket *)

\* the buckets of the handle the second loop went through last
Buckets == IF BucketHandles = {} THEN {} ELSE DOMAIN variant_combinations

\* the member rows of bucket b
MembersOf(b) ==
    {variant_combinations[b].rows[i] : i \in DOMAIN variant_combinations[b].rows}

\* the output row of bucket b: the rows of the handle end the list, in bucket order
RowOfBucket(b) == ikas_rows[Len(ikas_rows) - Len(variant_combinations) + b]

\* the SKU merged over the rows K: that of the first row with a non-blank SKU,
\* trimmed
MergedTrimmedSku(K) ==
    IF \A k \in K : TrimmedSku(k) = <<>> THEN Empty
    ELSE Str(TrimmedSku(Least({k \in K : TrimmedSku(k) # <<>>})))

\* C13: the SKU, barcode, sale price, discounted price and stock of a bucket's
\* output row are each the value of the first member row that has the field,
\* whatever the other fields of the member rows hold.
C13_FirstNonBlankPerField ==
    \A b \in Buckets :
        /\ RowOfBucket(b).SKU = MergedTrimmedSku(MembersOf(b))
        /\ RowOfBucket(b).Barkod_Listesi = MergedBarcode(MembersOf(b))
        /\ RowOfBucket(b).Satis_Fiyati = MergedPrice(MembersOf(b))
        /\ RowOfBucket(b).Indirimli_Fiyati = MergedCompare(MembersOf(b))
        /\ RowOfBucket(b).Stok_Ana_Depo = MergedStock(MembersOf(b))

\* C14: in the row of a simple product, of a handle without bucket and of a
\* bucket, the sale price, the discounted price and the stock are the first
\* non-zero number among the rows merged, and zero only if no row has one.
C14_ZeroIsAbsent ==
    /\ Done =>
          \A h \in Handles :
              (FirstRowDefaultTitle(h) \/ ~HasSignal(h)) =>
                  \A n \in OutputOf(h) :
                      /\ ikas_df[n].Satis_Fiyati = MergedPrice(RowsOf(h))
                      /\ ikas_df[n].Indirimli_Fiyati = MergedCompare(RowsOf(h))
                      /\ ikas_df[n].Stok_Ana_Depo = MergedStock(RowsOf(h))
    /\ \A b \in Buckets :
          /\ RowOfBucket(b).Satis_Fiyati = MergedPrice(MembersOf(b))
          /\ RowOfBucket(b).Indirimli_Fiyati = MergedCompare(MembersOf(b))
          /\ RowOfBucket(b).Stok_Ana_Depo = MergedStock(MembersOf(b))

-----------------------------------------------------------------------------
(* Shared attributes *)

\* the first non-empty cell of handle h in a column, blank if there is none
FirstOrBlank(h, col) == IF FirstCell(h, col).t = "nan" THEN Empty ELSE FirstCell(h, col)

\* the category of handle h: Product Category if a row has one, else Type
CategoryOf(h) ==
    IF FirstCell(h, "Product Category").t # "nan" THEN FirstCell(h, "Product Category")
    ELSE FirstOrBlank(h, "Type")

\* the Google category of handle h: the primary column if a row has one, else
\* the legacy column
GoogleCategoryOf(h) ==
    IF FirstCell(h, "Google Shopping / Google Product Category").t # "nan"
    THEN FirstCell(h, "Google Shopping / Google Product Category")
    ELSE FirstOrBlank(h, "Google Product Category")

\* output row r carries the shared attributes of handle h
SharedAttributes(r, h) ==
    /\ r.Isim = FirstOrBlank(h, "Title")
    /\ r.Aciklama = FirstOrBlank(h, "Body (HTML)")
    /\ r.Marka = FirstOrBlank(h, "Vendor")
    /\ r.Tedarikci = FirstOrBlank(h, "Vendor")
    /\ r.Kategoriler = CategoryOf(h)
    /\ r.Etiketler = FirstOrBlank(h, "Tags")
    /\ r.Metadata_Baslik = FirstOrBlank(h, "SEO Title")
    /\ r.Metadata_Aciklama = FirstOrBlank(h, "SEO Description")
    /\ r.Google_Urun_Kategorisi = GoogleCategoryOf(h)
    /\ r.Tip = FirstOrBlank(h, "Type")
    /\ r.Olusturulma_Tarihi = FirstOrBlank(h, "Created At")

\* C15: every output row of a handle carries, in each shared attribute, the
\* first non-empty value of its input column over all rows of the handle in
\* row order (the category from Product Category, else Type; the Google
\* category from the primary column, else the legacy one).
C15_SharedAttributes ==
    Done => \A h \in Handles : \A n \in OutputOf(h) : SharedAttributes(ikas_df[n], h)

\* C15 witness: a handle whose first row, without option value or SKU, has a
\* title, a Product Category and a legacy Google category, whose second row has
\* a Type and whose third row has all of them; both output rows carry the
\* title and category of the first row, the Type of the second and the primary
\* Google category of the third.
C15_Witness ==
    /\ Done
    /\ Len(file_handles) = 3
    /\ Len(ikas_df) = 2
    /\ NoSignalRow(1) /\ Cell(1, "Product Category") = CategoryD
    /\ Cell(1, "Google Product Category") = LegacyK
    /\ Cell(2, "Title") = NaN /\ Cell(2, "Type") = TypeT
    /\ Cell(3, "Type") = TypeU /\ Cell(3, "Product Category") = CategoryC
    /\ \A n \in 1..2 :
          /\ ikas_df[n].Urun_Grup_ID = HandleA
          /\ ikas_df[n].Isim = Str(<<"3", "t">>)
          /\ ikas_df[n].Kategoriler = CategoryD
          /\ ikas_df[n].Tip = TypeT
          /\ ikas_df[n].Google_Urun_Kategorisi = GoogleG

-----------------------------------------------------------------------------
(* Output order *)

\* input row k has the Variant Key of output row r: the variant values of r
\* normalise to the option pair of k, or r has no variant value and the trimmed
\* SKU of k, a row without option value
KeyOfRow(k, r) ==
    IF ByOptions(k)
    THEN /\ Norm(r.Varyant_Deger_1) = Norm(Cell(k, "Option1 Value"))
         /\ Norm(r.Varyant_Deger_2) = Norm(Cell(k, "Option2 Value"))
    ELSE /\ SkuOnlyRow(k)
         /\ r.Varyant_Deger_1 = Empty /\ r.Varyant_Deger_2 = Empty
         /\ r.SKU = Str(TrimmedSku(k))

\* the rows of handle h that have the Variant Key of output row r
RowsOfKey(h, r) == {k \in RowsOf(h) : KeyOfRow(k, r)}

\* C16: in the returned table the rows of a handle are contiguous, the handles
\* follow each other in the order of their first rows in the input, and the rows
\* of a handle with buckets follow each other in the order of the first input
\* rows of their Variant Keys.
C16_OutputOrder ==
    Done =>
        /\ \A n1 \in DOMAIN ikas_df, n2 \in DOMAIN ikas_df, n3 \in DOMAIN ikas_df :
              (n1 < n2 /\ n2 < n3 /\ ikas_df[n1].Slug = ikas_df[n3].Slug)
              => ikas_df[n2].Slug = ikas_df[n1].Slug
        /\ \A n1 \in DOMAIN ikas_df, n2 \in DOMAIN ikas_df :
              (n1 < n2 /\ ikas_df[n1].Slug # ikas_df[n2].Slug)
              => Least(RowsOf(ikas_df[n1].Slug)) < Least(RowsOf(ikas_df[n2].Slug))
        /\ \A h \in Handles :
              (~FirstRowDefaultTitle(h) /\ HasSignal(h)) =>
                  \A n1 \in OutputOf(h), n2 \in OutputOf(h) :
                      /\ RowsOfKey(h, ikas_df[n1]) # {}
                      /\ n1 < n2 =>
                            Least(RowsOfKey(h, ikas_df[n1])) < Least(RowsOfKey(h, ikas_df[n2]))

\* C16 witness: the rows of handle "a" are the first and the third of the file,
\* with handle "b" between them; the table has the two rows of "a" first, the
\* one of key "S" before the one of the SKU "X", then the row of "b".
C16_Witness ==
    /\ Done
    /\ Len(file_handles) = 3
    /\ Resolved(1) = HandleA /\ Resolved(2) = HandleB /\ Resolved(3) = HandleA
    /\ Len(ikas_df) = 3
    /\ ikas_df[1].Slug = HandleA /\ ikas_df[1].Varyant_Deger_1 = OptS
    /\ ikas_df[2].Slug = HandleA /\ ikas_df[2].Varyant_Deger_1 = Empty
    /\ ikas_df[2].SKU = SkuX
    /\ ikas_df[3].Slug = HandleB

-----------------------------------------------------------------------------
(* Retained variant values *)

\* the row that created bucket b: its first member
CreatorOf(b) == variant_combinations[b].rows[1]

\* an option cell as it stands in the file, blank if empty or "Default Title"
AsWritten(cell) == IF Norm(cell) = <<>> THEN Empty ELSE Str(str(cell))

\* an option cell trimmed, in its own letter case, blank if empty or "Default Title"
Trimmed(cell) == IF Norm(cell) = <<>> THEN Empty ELSE Str(strip(str(cell)))

=============================================================================
